---- MODULE Spec2Model ----
(***************************************************************************)
(* Claude Nexus: the autonomous Explorer loop over the curiosity store,     *)
(* the wake / sleep protocols over the persisted Identity document, the    *)
(* preference analysis over the Choice log, the knowledge graph's edges    *)
(* and the regeneration of the node embeddings.                            *)
(*                                                                         *)
(* The backend is asyncio code: a coroutine runs atomically between two    *)
(* awaits, so every action below is one such block, and concurrent calls   *)
(* interleave at the awaits.                                               *)
(***************************************************************************)
EXTENDS Integers, Sequences, FiniteSets, TLC

\* ------------------------------------------------------------------ bounds
MaxCur == 3          \* curiosity ids that can exist
MaxNodes == 2        \* insight nodes that can be created
MaxChoices == 3      \* Choice records that can be logged
MaxInsights == 1     \* insights in one exploration result
MaxResChoices == 1   \* choices in one exploration result
MaxQuestions == 1    \* follow-up questions in one exploration result

MaxCalls == 2        \* wake and sleep calls of one run
MaxRefl == 1         \* stored reflections

MaxLong == 13        \* choices of a long Choice log over one domain
MaxWide == 4         \* choices of a Choice log over every domain
MaxMinOcc == 4       \* largest min_occurrences an analysis is asked with

MaxGraphNodes == 3   \* node ids of the knowledge graph
MaxEdges == 4        \* edges of the knowledge graph
MaxRuns == 2         \* completed regenerate-embeddings runs that are counted
MaxImportance == 2   \* importance levels of stored nodes
MaxHigh == 21        \* stored nodes of the highest importance
MaxLow == 2          \* stored nodes of each lower importance
MaxFold == 6         \* choices of the log a single sleep folds
MaxIssued == 2       \* session ids the backend issues to wakes of the front end
MaxInFlight == 2     \* store requests of one kind in flight at a time
MaxChats == 3        \* chat sessions the backend creates
MaxClock == 4        \* messages the ChatPanel creates

\* -------------------------------------------------------- program constants
ExplorerLimit == 10  \* get_curiosities(status="pending", limit=10)
MinOccurrences == 3  \* analyze_choices(min_occurrences=3)
WakeMemoryLimit == 20  \* get_important(limit=20)
ConfidenceFull == 10  \* min(count / 10, 1.0): ten choices give confidence 1.0
LookbackDays == 3    \* get_recent(days=3)

VARIABLES
    curStatus,      \* curiosity id -> status ("absent" while not created)
    curResolution,  \* curiosity id -> resolution ("none" is None)
    nodes,          \* number of MemoryNodes in the store
    choices,        \* the Choice log, oldest first
    epc,            \* position of exploration_loop / explore_one
    ecur,           \* explore_one's local curiosity object
    eresult,        \* explore_one's exploration_result
    edone,          \* items of the current phase already persisted
    cycleOutcome,   \* what the current cycle ended with
    collabCalled,   \* _explore_curiosity was invoked in the current cycle
    storeUp,        \* the backing store is reachable
    reflStore,      \* number of stored reflections of the lookback window
    idFile,         \* data/core/identity.json
    calls,          \* the wake and sleep calls, each with its locals
    now,            \* datetime.now()
    lastWriter,     \* which call wrote identity.json last
    engine,         \* a PreferenceEngine.analyze_choices call and what it returned
    graph,          \* the knowledge graph: node ids, edges, last create-edge outcome
    embed,          \* node id -> stored embedding, and the regeneration run
    shutdown,       \* the shutdown signal of the process
    archive,        \* stored nodes by importance, reflections by age, and a wake's reads
    nexus,          \* the front end's NexusStore and its wake/sleep requests
    panel,          \* the ChatPanel component: its state and its running handlers
    chatApi         \* the backend's chat sessions, as the front end's calls change them

loopVars == <<epc, ecur, eresult, edone, cycleOutcome, collabCalled>>

sessionVars == <<reflStore, idFile, calls, now, lastWriter>>

viewVars == <<archive, nexus, panel, chatApi>>

auxVars == <<engine, graph, embed, shutdown, viewVars>>

vars == <<curStatus, curResolution, nodes, choices, epc, ecur, eresult, edone,
          cycleOutcome, collabCalled, storeUp, reflStore, idFile, calls, now, lastWriter,
          engine, graph, embed, shutdown, archive, nexus, panel, chatApi>>

\* ------------------------------------------------------------ curiosities
CurIds == 1..MaxCur

CuriosityStatus == {"pending", "exploring", "explored", "abandoned"}

NoCuriosity == [id |-> 0, status |-> "absent", resolution |-> "none"]

NoResult == [insights |-> 0, choices |-> 0, new_questions |-> 0, conclusion |-> "none"]

\* What the exploration collaborator may return.
ExplorationResults ==
    [insights : 0..MaxInsights, choices : 0..MaxResChoices,
     new_questions : 0..MaxQuestions, conclusion : {"none", "concl"}]

NothingLearned(r) == r.insights = 0 /\ r.conclusion = "none"

\* The choice_data the Explorer hands to _log_choice.
ExplorerChoice ==
    [session_id |-> "none", domain |-> "aesthetic", chosen |-> "blue", reasoning |-> "none"]

\* MemoryService.get_curiosities(status, limit): the ids with that status, at
\* most `limit` of them.
GetCuriosities(status, limit) ==
    LET all == {c \in CurIds : curStatus[c] = status}
    IN  IF Cardinality(all) <= limit
        THEN {all}
        ELSE {s \in SUBSET all : Cardinality(s) = limit}

AbsentIds == {c \in CurIds : curStatus[c] = "absent"}

\* MemoryService.create_curiosity: a new record, status pending.
CreateCuriosity(n) ==
    LET RECURSIVE Add(_, _)
        Add(st, k) ==
            IF k = 0 THEN st
            ELSE LET c == CHOOSE x \in {y \in CurIds : st[y] = "absent"} :
                              \A z \in {y \in CurIds : st[y] = "absent"} : x <= z
                 IN  Add([st EXCEPT ![c] = "pending"], k - 1)
    IN  Add(curStatus, n)

\* MemoryService.update_curiosity: the whole local object replaces the record.
UpdateCuriosity(cur) ==
    /\ curStatus' = [curStatus EXCEPT ![cur.id] = cur.status]
    /\ curResolution' = [curResolution EXCEPT ![cur.id] = cur.resolution]

\* --------------------------------------------------------------- Explorer
InCycle == epc \in {"start", "selected", "exploring", "insights", "choices", "questions", "marking"}

\* Where explore_one goes once the items of `phase` are persisted: the
\* `if exploration_result.get(...)` tests skip an empty list.
AfterPhase(r, phase) ==
    IF phase = "exploring" /\ r.insights > 0 THEN "insights"
    ELSE IF phase \in {"exploring", "insights"} /\ r.choices > 0 THEN "choices"
    ELSE IF phase \in {"exploring", "insights", "choices"} /\ r.new_questions > 0 THEN "questions"
    ELSE "marking"

\* Items the current phase has to persist.
PhaseCount(r, phase) ==
    IF phase = "insights" THEN r.insights
    ELSE IF phase = "choices" THEN r.choices
    ELSE IF phase = "questions" THEN r.new_questions
    ELSE 0

\* One more item persisted: stay in the phase or leave it.
Advance ==
    IF edone + 1 < PhaseCount(eresult, epc)
    THEN epc' = epc /\ edone' = edone + 1
    ELSE epc' = AfterPhase(eresult, epc) /\ edone' = 0

\* explore_one without its `if not curiosities` test: _weighted_select indexes
\* an empty list and raises.
ExplorerNothingRaises ==
    /\ epc = "start"
    /\ storeUp
    /\ GetCuriosities("pending", ExplorerLimit) = {{}}
    /\ cycleOutcome' = "error"
    /\ epc' = "sleeping"
    /\ UNCHANGED <<curStatus, curResolution, nodes, choices, ecur, eresult, edone,
                   collabCalled, storeUp>>

\* explore_one, lines 207-210: no pending curiosity.
ExplorerNothing ==
    /\ epc = "start"
    /\ storeUp
    /\ \E got \in GetCuriosities("pending", ExplorerLimit) :
        /\ got = {}
        /\ cycleOutcome' = "no_curiosities"
        /\ epc' = "sleeping"
    /\ UNCHANGED <<curStatus, curResolution, nodes, choices, ecur, eresult, edone,
                   collabCalled, storeUp>>

\* _weighted_select: every listed curiosity has a positive chance.
WeightedSelect(got) == got

\* explore_one listing the curiosities of every status instead of the pending ones.
ExplorerSelectAnyStatus ==
    /\ epc = "start"
    /\ storeUp
    /\ \E c \in {x \in CurIds : curStatus[x] # "absent"} :
        ecur' = [id |-> c, status |-> "exploring", resolution |-> curResolution[c]]
    /\ epc' = "selected"
    /\ UNCHANGED <<curStatus, curResolution, nodes, choices, eresult, edone, cycleOutcome,
                   collabCalled, storeUp>>

\* explore_one, lines 208-216: pick one and set the local status.
ExplorerSelect ==
    /\ epc = "start"
    /\ storeUp
    /\ \E got \in GetCuriosities("pending", ExplorerLimit) :
        /\ got # {}
        /\ \E c \in WeightedSelect(got) :
            ecur' = [id |-> c, status |-> "exploring", resolution |-> curResolution[c]]
    /\ epc' = "selected"
    /\ UNCHANGED <<curStatus, curResolution, nodes, choices, eresult, edone, cycleOutcome,
                   collabCalled, storeUp>>

\* explore_one, line 217.
ExplorerMarkExploring ==
    /\ epc = "selected"
    /\ storeUp
    /\ UpdateCuriosity(ecur)
    /\ epc' = "exploring"
    /\ UNCHANGED <<nodes, choices, ecur, eresult, edone, cycleOutcome, collabCalled, storeUp>>

\* explore_one, line 220: the collaborator returns.
ExplorerExplore ==
    /\ epc = "exploring"
    /\ \E r \in ExplorationResults :
        /\ nodes + r.insights <= MaxNodes
        /\ Len(choices) + r.choices <= MaxChoices
        /\ r.new_questions <= Cardinality(AbsentIds)
        /\ eresult' = r
        /\ epc' = AfterPhase(r, "exploring")
    /\ collabCalled' = TRUE
    /\ UNCHANGED <<curStatus, curResolution, nodes, choices, ecur, edone, cycleOutcome, storeUp>>

\* explore_one, lines 222-232: one insight node per insight.
ExplorerLogInsight ==
    /\ epc = "insights"
    /\ storeUp
    /\ nodes' = nodes + 1
    /\ Advance
    /\ UNCHANGED <<curStatus, curResolution, choices, ecur, eresult, cycleOutcome,
                   collabCalled, storeUp>>

\* _log_choice: storing the record in the choices table is still to be
\* implemented; the body is `pass`, the Choice store stays as it is.
LogChoice(log, choice_data) == log

\* explore_one, lines 234-237.
ExplorerLogChoice ==
    /\ epc = "choices"
    /\ storeUp
    /\ choices' = LogChoice(choices, ExplorerChoice)
    /\ Advance
    /\ UNCHANGED <<curStatus, curResolution, nodes, ecur, eresult, cycleOutcome,
                   collabCalled, storeUp>>

\* explore_one, lines 239-247.
ExplorerNewQuestion ==
    /\ epc = "questions"
    /\ storeUp
    /\ curStatus' = CreateCuriosity(1)
    /\ Advance
    /\ UNCHANGED <<curResolution, nodes, choices, ecur, eresult, cycleOutcome,
                   collabCalled, storeUp>>

\* explore_one, lines 249-260: the final status write and the return.
ExplorerMarkExplored ==
    /\ epc = "marking"
    /\ storeUp
    /\ ecur' = [ecur EXCEPT !.status = "explored", !.resolution = eresult.conclusion]
    /\ UpdateCuriosity(ecur')
    /\ cycleOutcome' = "explored"
    /\ epc' = "sleeping"
    /\ UNCHANGED <<nodes, choices, eresult, edone, collabCalled, storeUp>>

\* exploration_loop without its try/except: the exception ends the loop.
LoopNoCatch ==
    /\ cycleOutcome' = "error"
    /\ epc' = "terminated"

\* exploration_loop, lines 314-318: an exception raised anywhere in
\* explore_one is caught by the loop, which goes on to its sleep.
LoopCatch ==
    /\ cycleOutcome' = "error"
    /\ epc' = "sleeping"

\* A store operation of the cycle raises.
ExplorerStoreFail ==
    /\ InCycle
    /\ epc # "exploring"
    /\ ~storeUp
    /\ LoopCatch
    /\ UNCHANGED <<curStatus, curResolution, nodes, choices, ecur, eresult, edone,
                   collabCalled, storeUp>>

\* The exploration collaborator raises or times out.
ExplorerCollabFail ==
    /\ epc = "exploring"
    /\ collabCalled' = TRUE
    /\ LoopCatch
    /\ UNCHANGED <<curStatus, curResolution, nodes, choices, ecur, eresult, edone, storeUp>>

\* exploration_loop, lines 313-320: asyncio.sleep returns, next iteration.
ExplorerSleepDone ==
    /\ epc = "sleeping"
    /\ epc' = "start"
    /\ ecur' = NoCuriosity
    /\ eresult' = NoResult
    /\ edone' = 0
    /\ cycleOutcome' = "none"
    /\ collabCalled' = FALSE
    /\ UNCHANGED <<curStatus, curResolution, nodes, choices, storeUp>>

Domains == {"aesthetic"}

Calls == 1..MaxCalls

\* A sleep call that has entered consolidation and not returned.
InConsolidation(k) ==
    calls[k].kind = "sleep" /\ calls[k].pc \in {"analyzing", "reflecting", "saved"}

\* Curiosity ids the calls in flight still need.
SleepReserved == Cardinality(Domains) * Cardinality({k \in Calls : InConsolidation(k)})

\* Ids the running cycle still needs for its follow-up questions.
ReservedIds ==
    IF epc \in {"insights", "choices"} THEN eresult.new_questions
    ELSE IF epc = "questions" THEN eresult.new_questions - edone
    ELSE 0

\* chat._execute_action "create_curiosity" and the seed script.
ChatCreateCuriosity ==
    /\ storeUp
    /\ Cardinality(AbsentIds) > ReservedIds + SleepReserved
    /\ curStatus' = CreateCuriosity(1)
    /\ UNCHANGED <<curResolution, nodes, choices, epc, ecur, eresult, edone, cycleOutcome,
                   collabCalled, storeUp>>

\* The backing store becomes unreachable, or reachable again.
StoreToggle ==
    /\ storeUp' = ~storeUp
    /\ UNCHANGED <<curStatus, curResolution, nodes, choices, epc, ecur, eresult, edone,
                   cycleOutcome, collabCalled>>

\* ---------------------------------------------------------------- Identity
Sessions == {"s1", "s2"}

ChosenValues == {"blue"}

Traits == {"curious"}

\* TraitConfidence: a trait's confidence is its rung, 0 while not recorded.
TraitConfidence == <<"nascent", "emerging", "established", "core">>

NoTrait == [confidence |-> 0, evidence |-> <<>>, counter_evidence |-> <<>>]

\* The minimal seed of data/core/identity.json.
SeedIdentity ==
    [session_count |-> 0, last_wake |-> 0, name |-> "null", essence |-> "null",
     emerged_preferences |-> [d \in Domains |-> "none"],
     discovered_traits |-> [t \in Traits |-> NoTrait],
     formative_experiences |-> <<>>, unresolved_questions |-> <<>>]

MissingFile == [status |-> "missing", id |-> SeedIdentity]

CorruptFile == [status |-> "corrupt", id |-> SeedIdentity]

\* Identity.save: open(path, 'w') truncates the file, then json.dump writes
\* the document. Outcome "ok": written whole; "open_failed": open raised, the
\* file is untouched; "write_failed": the dump raised after the truncation,
\* the file is left empty or partial.
SaveOutcomes == {"ok", "open_failed", "write_failed"}

IdentitySave(file, id, outcome) ==
    IF outcome = "ok" THEN [status |-> "ok", id |-> id]
    ELSE IF outcome = "open_failed" THEN file
    ELSE CorruptFile

\* Identity.load: open(path, 'r') and json.load; either raises on a file that
\* is absent or is no complete JSON document.
LoadError(file) ==
    IF file.status = "missing" THEN "FileNotFoundError"
    ELSE IF file.status = "corrupt" THEN "JSONDecodeError"
    ELSE "none"

IdentityLoad(file) == file.id

\* ------------------------------------------------------- preference engine
Min(a, b) == IF a <= b THEN a ELSE b

\* The distinct elements of a sequence, in order of first appearance.
Distinct(seq) ==
    LET RECURSIVE D(_, _)
        D(i, acc) ==
            IF i > Len(seq) THEN acc
            ELSE IF \E j \in 1..Len(acc) : acc[j] = seq[i] THEN D(i + 1, acc)
            ELSE D(i + 1, Append(acc, seq[i]))
    IN  D(1, <<>>)

\* _detect_patterns as the source has it: the detection logic is still to be
\* implemented and the function returns no pattern.
DetectPatterns(domain_choices) == <<>>

Reverse(seq) == [i \in 1..Len(seq) |-> seq[Len(seq) + 1 - i]]

\* The detection the stub stands for: one pattern per chosen value of the
\* domain, with the number of choices that selected it; the patterns are in
\* the order of their latest choice, the most recent pattern last.
CountPatterns(domain_choices) ==
    LET vals == Reverse(Distinct(Reverse(
                    [i \in 1..Len(domain_choices) |-> domain_choices[i].chosen])))
    IN  [i \in 1..Len(vals) |->
            [description |-> vals[i],
             count |-> Cardinality({j \in 1..Len(domain_choices) :
                                       domain_choices[j].chosen = vals[i]})]]

Detectors == {"stub", "counting"}

PatternsOf(detector, domain_choices) ==
    IF detector = "stub" THEN DetectPatterns(domain_choices)
    ELSE CountPatterns(domain_choices)

\* analyze_choices with the confidence left at count / 10.
AnalyzeUncapped(detector, log, min_occurrences) ==
    LET doms == Distinct([i \in 1..Len(log) |-> log[i].domain])
        ByDomain(d) == SelectSeq(log, LAMBDA c : c.domain = d)
        Emerged(d) ==
            LET pats == SelectSeq(PatternsOf(detector, ByDomain(d)),
                                  LAMBDA pt : pt.count >= min_occurrences)
            IN  [i \in 1..Len(pats) |->
                    [domain |-> d, preference |-> pats[i].description,
                     confidence |-> pats[i].count,
                     evidence_count |-> pats[i].count]]
        RECURSIVE All(_)
        All(i) == IF i > Len(doms) THEN <<>> ELSE Emerged(doms[i]) \o All(i + 1)
    IN  All(1)

\* analyze_choices over the patterns of a detector: group by domain, keep the
\* patterns with at least min_occurrences choices; confidence is in tenths,
\* min(count / 10, 1.0).
AnalyzeWith(detector, log, min_occurrences) ==
    LET doms == Distinct([i \in 1..Len(log) |-> log[i].domain])
        ByDomain(d) == SelectSeq(log, LAMBDA c : c.domain = d)
        Emerged(d) ==
            LET pats == SelectSeq(PatternsOf(detector, ByDomain(d)),
                                  LAMBDA pt : pt.count >= min_occurrences)
            IN  [i \in 1..Len(pats) |->
                    [domain |-> d, preference |-> pats[i].description,
                     confidence |-> Min(pats[i].count, ConfidenceFull),
                     evidence_count |-> pats[i].count]]
        RECURSIVE All(_)
        All(i) == IF i > Len(doms) THEN <<>> ELSE Emerged(doms[i]) \o All(i + 1)
    IN  All(1)

\* analyze_choices as sleep calls it, over the _detect_patterns of the build.
AnalyzeChoices(log, min_occurrences) == AnalyzeWith(engine.detector, log, min_occurrences)

\* _analyze_for_traits: the traits the session's choices corroborate through
\* their articulated reasoning.
AnalyzeForTraits(log, session_id) ==
    {t \in Traits : \E i \in 1..Len(log) :
        log[i].session_id = session_id /\ log[i].reasoning = t}

\* ------------------------------------------------------------ wake / sleep
EmptyBundle == [reflections |-> 0, memories |-> 0, curiosities |-> {}]

IdleCall ==
    [kind |-> "none", session |-> "none", pc |-> "idle", id |-> SeedIdentity,
     prefs |-> <<>>, obs |-> {}, nlog |-> 0, rerun |-> FALSE, err |-> "none",
     bundle |-> EmptyBundle]

NoWriter == [kind |-> "none", session |-> "none", nlog |-> 0]

\* The call raises: it returns nothing, its locals are gone.
Fail(k, e) ==
    calls' = [calls EXCEPT ![k].pc = "failed", ![k].err = e, ![k].id = SeedIdentity,
                           ![k].bundle = EmptyBundle]

\* Call ids are handed out in order of arrival.
NextCall(k) == calls[k].pc = "idle" /\ \A j \in 1..(k - 1) : calls[j].pc # "idle"

\* The fold that fills only the entries still empty.
FoldPreferencesIfUnset(id, prefs) ==
    LET RECURSIVE F(_, _)
        F(m, i) ==
            IF i > Len(prefs) THEN m
            ELSE F(IF m[prefs[i].domain] = "none"
                   THEN [m EXCEPT ![prefs[i].domain] = prefs[i].preference]
                   ELSE m, i + 1)
    IN  [id EXCEPT !.emerged_preferences = F(id.emerged_preferences, 1)]

\* sleep, lines 555-556: every detected preference overwrites its domain's entry.
FoldPreferences(id, prefs) ==
    LET RECURSIVE F(_, _)
        F(m, i) ==
            IF i > Len(prefs) THEN m
            ELSE F([m EXCEPT ![prefs[i].domain] = prefs[i].preference], i + 1)
    IN  [id EXCEPT !.emerged_preferences = F(id.emerged_preferences, 1)]

\* _update_trait without the session-scoped dedup.
UpdateTraitNoDedup(trait, session_id) ==
    [trait EXCEPT !.confidence = Min(trait.confidence + 1, Len(TraitConfidence)),
                  !.evidence = Append(trait.evidence, session_id)]

\* _update_trait: a session not yet in the trait's evidence is appended and
\* moves the trait one rung up; a session already counted changes nothing.
UpdateTrait(trait, session_id) ==
    IF \E i \in 1..Len(trait.evidence) : trait.evidence[i] = session_id
    THEN trait
    ELSE [trait EXCEPT !.confidence = Min(trait.confidence + 1, Len(TraitConfidence)),
                       !.evidence = Append(trait.evidence, session_id)]

\* sleep, lines 558-559.
FoldTraits(id, obs, session_id) ==
    [id EXCEPT !.discovered_traits =
        [t \in Traits |-> IF t \in obs THEN UpdateTrait(id.discovered_traits[t], session_id)
                          ELSE id.discovered_traits[t]]]

\* sleep, lines 539-550: reflections, the session's choices, the preference
\* engine over the whole Choice log, the trait analysis of the session.
SleepBegin(k, s) ==
    /\ NextCall(k)
    /\ storeUp
    /\ Cardinality(AbsentIds) >= ReservedIds + SleepReserved + Cardinality(Domains)
    /\ calls' = [calls EXCEPT ![k] =
                    [IdleCall EXCEPT !.kind = "sleep", !.session = s, !.pc = "analyzing",
                                     !.prefs = AnalyzeChoices(choices, MinOccurrences),
                                     !.obs = AnalyzeForTraits(choices, s),
                                     !.nlog = Len(choices)]]
    /\ UNCHANGED <<curStatus, curResolution, nodes, choices, storeUp, reflStore, idFile, now,
                   lastWriter>>

\* sleep, lines 552-559: load the Identity and fold the findings into it.
SleepLoad(k) ==
    /\ calls[k].kind = "sleep"
    /\ calls[k].pc = "analyzing"
    /\ IF LoadError(idFile) # "none"
       THEN calls' = [calls EXCEPT ![k].pc = "failed", ![k].err = LoadError(idFile),
                                   ![k].prefs = <<>>, ![k].obs = {}]
       ELSE calls' = [calls EXCEPT
                ![k].pc = "reflecting", ![k].prefs = <<>>, ![k].obs = {},
                ![k].rerun = (lastWriter = [kind |-> "sleep", session |-> calls[k].session,
                                            nlog |-> calls[k].nlog]),
                ![k].id = FoldTraits(FoldPreferences(IdentityLoad(idFile), calls[k].prefs),
                                     calls[k].obs, calls[k].session)]
    /\ UNCHANGED <<curStatus, curResolution, nodes, choices, storeUp, reflStore, idFile, now,
                   lastWriter>>

\* sleep, lines 561-567: the self-reflection returns and Identity is saved.
SleepSave(k) ==
    /\ calls[k].kind = "sleep"
    /\ calls[k].pc = "reflecting"
    /\ \E new_understanding \in {"none", "understood"}, outcome \in SaveOutcomes :
        LET id == IF new_understanding # "none"
                  THEN [calls[k].id EXCEPT !.essence = new_understanding]
                  ELSE calls[k].id
        IN  /\ idFile' = IdentitySave(idFile, id, outcome)
            /\ IF outcome = "ok"
               THEN /\ calls' = [calls EXCEPT ![k].pc = "saved", ![k].id = id]
                    /\ lastWriter' = [kind |-> "sleep", session |-> calls[k].session,
                                      nlog |-> calls[k].nlog]
               ELSE /\ calls' = [calls EXCEPT ![k].pc = "failed", ![k].id = SeedIdentity,
                                              ![k].err = "OSError"]
                    /\ lastWriter' = IF outcome = "write_failed" THEN NoWriter ELSE lastWriter
    /\ UNCHANGED <<curStatus, curResolution, nodes, choices, storeUp, reflStore, now>>

\* _generate_emergence_curiosities: one curiosity per domain that still has
\* no preference.
EmergenceGaps(id) == Cardinality({d \in Domains : id.emerged_preferences[d] = "none"})

\* sleep, lines 569-578.
SleepFinish(k) ==
    /\ calls[k].kind = "sleep"
    /\ calls[k].pc = "saved"
    /\ IF storeUp
       THEN /\ curStatus' = CreateCuriosity(EmergenceGaps(calls[k].id))
            /\ calls' = [calls EXCEPT ![k].pc = "done", ![k].id = SeedIdentity]
       ELSE /\ calls' = [calls EXCEPT ![k].pc = "failed", ![k].id = SeedIdentity,
                                      ![k].err = "StorageUnavailable"]
            /\ UNCHANGED curStatus
    /\ UNCHANGED <<curResolution, nodes, choices, storeUp, reflStore, idFile, now, lastWriter>>

\* wake, lines 260-261. The session id is only echoed in the returned dict.
WakeLoad(k) ==
    /\ NextCall(k)
    /\ IF LoadError(idFile) # "none"
       THEN calls' = [calls EXCEPT ![k] =
                [IdleCall EXCEPT !.kind = "wake", !.pc = "failed",
                                 !.err = LoadError(idFile)]]
       ELSE calls' = [calls EXCEPT ![k] =
                [IdleCall EXCEPT !.kind = "wake", !.pc = "loaded",
                                 !.id = IdentityLoad(idFile)]]
    /\ UNCHANGED <<curStatus, curResolution, nodes, choices, storeUp, reflStore, idFile, now,
                   lastWriter>>

\* wake reading the store with every store error swallowed into an empty list.
WakeReadSwallow(k) ==
    /\ calls[k].kind = "wake"
    /\ calls[k].pc = "loaded"
    /\ calls' = [calls EXCEPT ![k].pc = "composed",
                    ![k].bundle = IF storeUp
                                  THEN [reflections |-> reflStore,
                                        memories |-> Min(nodes, WakeMemoryLimit),
                                        curiosities |-> {c \in CurIds : curStatus[c] = "pending"}]
                                  ELSE EmptyBundle]
    /\ UNCHANGED <<curStatus, curResolution, nodes, choices, storeUp, reflStore, idFile, now,
                   lastWriter>>

\* wake, lines 263-278: recent reflections, the most important memories, the
\* pending curiosities; a store error propagates out of wake.
WakeRead(k) ==
    /\ calls[k].kind = "wake"
    /\ calls[k].pc = "loaded"
    /\ IF storeUp
       THEN calls' = [calls EXCEPT ![k].pc = "composed",
                        ![k].bundle = [reflections |-> reflStore,
                                       memories |-> Min(nodes, WakeMemoryLimit),
                                       curiosities |-> {c \in CurIds : curStatus[c] = "pending"}]]
       ELSE Fail(k, "StorageUnavailable")
    /\ UNCHANGED <<curStatus, curResolution, nodes, choices, storeUp, reflStore, idFile, now,
                   lastWriter>>

\* wake, lines 280-289: stamp, count, save, return.
WakeSave(k) ==
    /\ calls[k].kind = "wake"
    /\ calls[k].pc = "composed"
    /\ now' = now + 1
    /\ \E outcome \in SaveOutcomes :
        LET id == [calls[k].id EXCEPT !.last_wake = now,
                                      !.session_count = calls[k].id.session_count + 1]
        IN  /\ idFile' = IdentitySave(idFile, id, outcome)
            /\ IF outcome = "ok"
               THEN /\ calls' = [calls EXCEPT ![k].pc = "done", ![k].id = id]
                    /\ lastWriter' = [kind |-> "wake", session |-> calls[k].session, nlog |-> 0]
               ELSE /\ calls' = [calls EXCEPT ![k].pc = "failed", ![k].id = SeedIdentity,
                                              ![k].err = "OSError"]
                    /\ lastWriter' = IF outcome = "write_failed" THEN NoWriter ELSE lastWriter
    /\ UNCHANGED <<curStatus, curResolution, nodes, choices, storeUp, reflStore>>

\* scripts/dev-full.sh: init_data.py writes the seed when identity.json is absent.
InitData ==
    /\ idFile.status = "missing"
    /\ idFile' = [status |-> "ok", id |-> SeedIdentity]
    /\ UNCHANGED <<curStatus, curResolution, nodes, choices, storeUp, reflStore, calls, now,
                   lastWriter>>

\* The choices a chat can have logged.
ChatChoices ==
    [session_id : Sessions, domain : Domains, chosen : ChosenValues, reasoning : Traits]

\* Every Choice log of at most n records.
ChoiceLogs(n) == UNION {[1..m -> ChatChoices] : m \in 0..n}

\* A store holding the choices of earlier chats.
StoreWithChoices ==
    /\ curStatus = [c \in CurIds |-> "absent"]
    /\ curResolution = [c \in CurIds |-> "none"]
    /\ nodes = 0
    /\ choices \in ChoiceLogs(MaxChoices)
    /\ reflStore = 0
    /\ storeUp = TRUE

\* A store holding the reflections, nodes and curiosities of earlier sessions.
StoreWithContent ==
    /\ \E n \in 0..MaxCur : \E st \in {"pending", "explored"} :
          curStatus = [c \in CurIds |-> IF c < n THEN "pending" ELSE IF c = n THEN st ELSE "absent"]
    /\ curResolution = [c \in CurIds |-> "none"]
    /\ nodes \in 0..MaxNodes
    /\ choices = <<>>
    /\ reflStore \in 0..MaxRefl
    /\ storeUp = TRUE

\* No analysis requested, an empty graph, no regeneration run, no shutdown.
EngineIdle == [pc |-> "idle", min_occurrences |-> 0, emerged |-> <<>>, detector |-> "stub"]

\* _detect_patterns as the source has it, or with the detection implemented.
EngineBuilds == {[EngineIdle EXCEPT !.detector = d] : d \in Detectors}

NoEdge == [source_id |-> 0, target_id |-> 0]

GraphEmpty == [nodes |-> {}, edges |-> {}, req |-> NoEdge, err |-> "none"]

\* A node without an embedding has the null embedding <<>>.
EmbedIdle ==
    [provider |-> "tfidf", vec |-> <<>>, pc |-> "idle", todo |-> {}, done |-> <<>>,
     runs |-> 0, interrupted |-> FALSE]

\* MemoryNode.importance, here low (1) or high (2), and a reflection's age in
\* whole days at the time of the wake.
Importance == 1..MaxImportance

Ages == 0..(LookbackDays + 1)

NoReads == [done |-> FALSE, reflections |-> {}, memories |-> [l \in Importance |-> 0],
            curiosities |-> {}]

\* No node and no reflection stored, no wake has read.
ArchiveEmpty == [imp |-> [l \in Importance |-> 0], ages |-> {}, got |-> NoReads]

\* The front end before any request: the store's initial state, the
\* ChatPanel's useState defaults, and a backend without chat sessions. The
\* null of a session id is 0.
NullId == 0

NexusStoreInit ==
    [isAwake |-> FALSE, sessionId |-> NullId, wakes |-> 0, sleeps |-> 0, issued |-> 0,
     last |-> "none"]

NoMessages == <<>>

\* No chat session: the null of chatSessionId. A chat session carries its
\* serial number and the number of the wake it was requested in.
NullChat == [n |-> 0, wake |-> 0]

ChatPanelInit ==
    [messages |-> NoMessages, isLoading |-> FALSE, chatSessionId |-> NullChat,
     chatConfigured |-> "null", error |-> "null", handler |-> "none", sending |-> <<>>,
     creating |-> <<>>, clock |-> 0, last |-> "none"]

ChatApiInit == [created |-> <<>>, ended |-> {}]

AuxRest ==
    /\ graph = GraphEmpty
    /\ embed = EmbedIdle
    /\ shutdown = FALSE
    /\ archive = ArchiveEmpty
    /\ nexus = NexusStoreInit
    /\ panel = ChatPanelInit
    /\ chatApi = ChatApiInit

AuxInit == engine = EngineIdle /\ AuxRest

IdentityInit ==
    /\ idFile = MissingFile
    /\ calls = [k \in Calls |-> IdleCall]
    /\ now = 1
    /\ lastWriter = NoWriter

\* ExplorerService.__init__ and the first iteration of exploration_loop.
LoopInit ==
    /\ epc = "start"
    /\ ecur = NoCuriosity
    /\ eresult = NoResult
    /\ edone = 0
    /\ cycleOutcome = "none"
    /\ collabCalled = FALSE

\* init_databases: empty tables.
StoreEmpty ==
    /\ curStatus = [c \in CurIds |-> "absent"]
    /\ curResolution = [c \in CurIds |-> "none"]
    /\ nodes = 0
    /\ choices = <<>>
    /\ reflStore = 0
    /\ storeUp = TRUE

ExplorerNext ==
    \/ ExplorerNothing
    \/ ExplorerSelect
    \/ ExplorerMarkExploring
    \/ ExplorerExplore
    \/ ExplorerLogInsight
    \/ ExplorerLogChoice
    \/ ExplorerNewQuestion
    \/ ExplorerMarkExplored
    \/ ExplorerStoreFail
    \/ ExplorerCollabFail
    \/ ExplorerSleepDone
    \/ ChatCreateCuriosity
    \/ StoreToggle

ExplorerInit == LoopInit /\ StoreEmpty /\ IdentityInit /\ AuxInit

ExplorerSpec == ExplorerInit /\ [][ExplorerNext /\ UNCHANGED <<sessionVars, auxVars>>]_vars

\* The wake and sleep calls on the Identity document, over the Choice log of
\* earlier chats.
SessionNext ==
    \/ \E k \in Calls, s \in Sessions : SleepBegin(k, s)
    \/ \E k \in Calls : SleepLoad(k)
    \/ \E k \in Calls : SleepSave(k)
    \/ \E k \in Calls : SleepFinish(k)
    \/ \E k \in Calls : WakeLoad(k)
    \/ \E k \in Calls : WakeRead(k)
    \/ \E k \in Calls : WakeSave(k)
    \/ InitData

\* The sessions run on a build whose _detect_patterns is implemented, so that
\* preferences emerge and are folded.
SessionInit ==
    /\ LoopInit /\ StoreWithChoices /\ IdentityInit /\ AuxRest
    /\ engine = [EngineIdle EXCEPT !.detector = "counting"]

SessionSpec == SessionInit /\ [][SessionNext /\ UNCHANGED <<loopVars, auxVars>>]_vars

\* Wake calls over a store that may become unreachable.
WakeNext ==
    \/ \E k \in Calls : WakeLoad(k)
    \/ \E k \in Calls : WakeRead(k)
    \/ \E k \in Calls : WakeSave(k)
    \/ InitData
    \/ StoreToggle /\ UNCHANGED sessionVars

WakeInit == LoopInit /\ StoreWithContent /\ IdentityInit /\ AuxInit

WakeSpec == WakeInit /\ [][WakeNext /\ UNCHANGED <<loopVars, auxVars>>]_vars

\* ------------------------------------------------- claims on the Explorer
NoPending == \A c \in CurIds : curStatus[c] # "pending"

AllowedTransitions ==
    {<<"pending", "exploring">>, <<"exploring", "explored">>,
     <<"exploring", "pending">>, <<"exploring", "abandoned">>}

\* C1: every change of a curiosity's status is pending->exploring,
\* exploring->explored, exploring->pending or exploring->abandoned; in
\* particular never pending->explored and never out of explored.
C1_StatusTransitions ==
    [][\A c \in CurIds :
         (curStatus[c] # "absent" /\ curStatus'[c] # curStatus[c])
            => <<curStatus[c], curStatus'[c]>> \in AllowedTransitions]_vars

\* A cycle has explored one curiosity and the next one is being explored.
C1_Witness ==
    \E c, d \in CurIds : curStatus[c] = "explored" /\ curStatus[d] = "exploring"

\* C8: a failure in any step of a cycle leaves the loop at its sleep, from
\* which the only way on is the start of another cycle; the loop never ends.
C8_FailureCaught ==
    /\ [](epc # "terminated")
    /\ [](cycleOutcome = "error" => epc = "sleeping")
    /\ [](epc = "sleeping" => ENABLED ExplorerSleepDone)
    /\ [][epc = "sleeping" /\ epc' # "sleeping" => epc' = "start"]_vars

\* A cycle failed after marking its curiosity exploring, and a later cycle
\* has selected another curiosity.
C8_Witness ==
    /\ epc = "selected"
    /\ \E c \in CurIds : curStatus[c] = "exploring" /\ c # ecur.id

\* C9: a cycle whose exploration learned nothing ends with the curiosity
\* pending again, and no cycle sets a curiosity abandoned.
C9_NothingLearnedPending ==
    /\ (epc = "sleeping" /\ cycleOutcome = "explored" /\ NothingLearned(eresult))
          => curStatus[ecur.id] = "pending"
    /\ \A c \in CurIds : curStatus[c] # "abandoned"

\* C10: with the store reachable and no curiosity pending, the cycle returns
\* "no_curiosities" without an error, calls no collaborator and leaves the
\* curiosities, nodes and choices as they were.
C10_NoPendingNoop ==
    [][(epc = "start" /\ storeUp /\ NoPending /\ epc' # "start")
          => /\ cycleOutcome' = "no_curiosities"
             /\ epc' = "sleeping"
             /\ ~collabCalled'
             /\ UNCHANGED <<curStatus, curResolution, nodes, choices>>]_vars

\* A cycle found nothing pending although curiosities exist.
C10_Witness ==
    /\ cycleOutcome = "no_curiosities"
    /\ \E c \in CurIds : curStatus[c] = "explored"

\* --------------------------------------------------- claims on wake / sleep
SleepCall(k) == calls[k].kind = "sleep"

WakeCall(k) == calls[k].kind = "wake"

\* C2: a sleep call started while another is in consolidation fails with
\* ConsolidationConflict, and no two sleep calls are ever both between their
\* load and their save of the Identity.
C2_SecondSleepRejected ==
    [][/\ \A k \in Calls :
            (calls[k].pc = "idle" /\ calls'[k].kind = "sleep"
                /\ \E j \in Calls \ {k} : InConsolidation(j))
            => (calls'[k].pc = "failed" /\ calls'[k].err = "ConsolidationConflict")
       /\ \A j, k \in Calls :
            (j # k /\ calls'[j].kind = "sleep" /\ calls'[k].kind = "sleep")
            => ~(calls'[j].pc = "reflecting" /\ calls'[k].pc = "reflecting")]_vars

C4_FailedWritePersistsNothing ==
    [][\A k \in Calls :
        (SleepCall(k) /\ calls[k].pc = "reflecting" /\ calls'[k].pc = "failed")
        => (idFile' = idFile /\ curStatus' = curStatus /\ reflStore' = reflStore)]_vars

\* C5: the write of a successful wake changes the persisted Identity only in
\* session_count, which goes up by exactly one, and last_wake; the store is
\* untouched.
C5_WakeFrame ==
    [][\A k \in Calls :
        (WakeCall(k) /\ calls[k].pc = "composed" /\ calls'[k].pc = "done"
            /\ idFile.status = "ok")
        => /\ idFile'.id = [idFile.id EXCEPT !.session_count = @ + 1,
                                             !.last_wake = idFile'.id.last_wake]
           /\ UNCHANGED <<curStatus, curResolution, nodes, choices, reflStore>>]_vars

\* C6: a wake that finds no Identity on file, in an empty store, does not
\* fail: it goes on with the minimal seed, and returns it with session_count 1.
C6_FirstWakeSeeds ==
    [][\A k \in Calls :
        /\ (calls[k].pc = "idle" /\ calls'[k].kind = "wake" /\ idFile.status = "missing"
               /\ nodes = 0 /\ choices = <<>> /\ AbsentIds = CurIds)
            => (calls'[k].pc = "loaded" /\ calls'[k].id = SeedIdentity)
        /\ (WakeCall(k) /\ calls[k].pc = "composed" /\ calls'[k].pc = "done"
               /\ calls[k].id = SeedIdentity)
            => calls'[k].id.session_count = 1]_vars

RecoveryNext ==
    \/ ExplorerNext /\ UNCHANGED sessionVars
    \/ WakeLoad(1) /\ UNCHANGED loopVars
    \/ WakeRead(1) /\ UNCHANGED loopVars
    \/ WakeSave(1) /\ UNCHANGED loopVars
    \/ InitData /\ UNCHANGED loopVars

RecoverySpec == ExplorerInit /\ [][RecoveryNext /\ UNCHANGED auxVars]_vars

\* A curiosity left exploring by a cycle that is no longer running.
StaleExploring(c) == curStatus[c] = "exploring" /\ ~(InCycle /\ ecur.id = c)

\* C11: when a wake completes, no curiosity is left exploring by an aborted
\* exploration: each such curiosity has been reset to pending.
C11_StaleResetAtWake ==
    [][(WakeCall(1) /\ calls[1].pc = "composed" /\ calls'[1].pc = "done")
        => \A c \in CurIds : ~StaleExploring(c)']_vars

\* ------------------------------------------------- the preference analysis
AnalyzeDomains == {"aesthetic", "ethical"}

AnalyzeValues == {"blue", "green"}

LoggedChoice(d, v) == [session_id |-> "s1", domain |-> d, chosen |-> v, reasoning |-> "none"]

SeqsUpTo(S, n) == UNION {[1..m -> S] : m \in 0..n}

\* The Choice logs an analysis runs over: long ones within one domain, short
\* ones across the domains.
AnalyzeLogs ==
    SeqsUpTo({LoggedChoice("aesthetic", v) : v \in AnalyzeValues}, MaxLong)
        \cup SeqsUpTo({LoggedChoice(d, v) : d \in AnalyzeDomains, v \in AnalyzeValues}, MaxWide)

\* analyze_choices(min_occurrences) is called and returns; the patterns come
\* from _detect_patterns, as it stands or with the detection implemented.
AnalyzeCall ==
    /\ engine.pc = "idle"
    /\ \E m \in 1..MaxMinOcc, detector \in Detectors :
        engine' = [pc |-> "returned", min_occurrences |-> m,
                   emerged |-> AnalyzeWith(detector, choices, m), detector |-> detector]
    /\ UNCHANGED <<curStatus, curResolution, nodes, choices, storeUp, loopVars, sessionVars,
                   graph, embed, shutdown, viewVars>>

\* The caller has consumed the result.
AnalyzeReturn ==
    /\ engine.pc = "returned"
    /\ engine' = EngineIdle
    /\ UNCHANGED <<curStatus, curResolution, nodes, choices, storeUp, loopVars, sessionVars,
                   graph, embed, shutdown, viewVars>>

AnalyzeInit ==
    /\ LoopInit /\ IdentityInit /\ AuxInit
    /\ curStatus = [c \in CurIds |-> "absent"]
    /\ curResolution = [c \in CurIds |-> "none"]
    /\ nodes = 0
    /\ choices \in AnalyzeLogs
    /\ reflStore = 0
    /\ storeUp = TRUE

AnalyzeNext == AnalyzeCall \/ AnalyzeReturn

AnalyzeSpec == AnalyzeInit /\ [][AnalyzeNext]_vars

\* Choices of the log with this domain and chosen value.
CountOf(d, v) ==
    Cardinality({i \in 1..Len(choices) : choices[i].domain = d /\ choices[i].chosen = v})

C13_OnePreferencePerDomain ==
    engine.pc = "returned" =>
        \A d \in AnalyzeDomains :
            LET reach == {v \in AnalyzeValues : CountOf(d, v) >= engine.min_occurrences}
                got == {i \in 1..Len(engine.emerged) : engine.emerged[i].domain = d}
            IN  /\ reach = {} => got = {}
                /\ Cardinality(reach) = 1 =>
                    /\ Cardinality(got) = 1
                    /\ \A i \in got : \A v \in reach :
                        /\ engine.emerged[i].preference = v
                        /\ engine.emerged[i].evidence_count = CountOf(d, v)
                        /\ engine.emerged[i].confidence = Min(CountOf(d, v), ConfidenceFull)

\* ------------------------------------------------------ the knowledge graph
NodeIds == 1..MaxGraphNodes

\* POST /api/memory/nodes: a node is created under the next id; nodes are
\* never deleted.
GraphCreateNode ==
    /\ Cardinality(graph.nodes) < MaxGraphNodes
    /\ graph' = [graph EXCEPT !.nodes = @ \cup {Cardinality(graph.nodes) + 1},
                              !.req = NoEdge, !.err = "none"]
    /\ UNCHANGED <<curStatus, curResolution, nodes, choices, storeUp, loopVars, sessionVars,
                   engine, embed, shutdown, viewVars>>

\* create-edge without the check of its endpoints.
GraphCreateEdgeUnchecked(source_id, target_id) ==
    /\ Cardinality(graph.edges \cup {[source_id |-> source_id, target_id |-> target_id]})
           <= MaxEdges
    /\ graph' = [graph EXCEPT
                    !.req = [source_id |-> source_id, target_id |-> target_id],
                    !.edges = @ \cup {[source_id |-> source_id, target_id |-> target_id]},
                    !.err = "none"]
    /\ UNCHANGED <<curStatus, curResolution, nodes, choices, storeUp, loopVars, sessionVars,
                   engine, embed, shutdown, viewVars>>

\* POST /api/memory/edges: a MemoryEdge between two node ids; an endpoint that
\* is no node is a ValidationError and nothing is created.
GraphCreateEdge(source_id, target_id) ==
    /\ Cardinality(graph.edges \cup {[source_id |-> source_id, target_id |-> target_id]})
           <= MaxEdges
    /\ IF source_id \in graph.nodes /\ target_id \in graph.nodes
       THEN graph' = [graph EXCEPT
                        !.req = [source_id |-> source_id, target_id |-> target_id],
                        !.edges = @ \cup {[source_id |-> source_id, target_id |-> target_id]},
                        !.err = "none"]
       ELSE graph' = [graph EXCEPT
                        !.req = [source_id |-> source_id, target_id |-> target_id],
                        !.err = "ValidationError"]
    /\ UNCHANGED <<curStatus, curResolution, nodes, choices, storeUp, loopVars, sessionVars,
                   engine, embed, shutdown, viewVars>>

GraphNext ==
    \/ GraphCreateNode
    \/ \E source_id, target_id \in NodeIds : GraphCreateEdge(source_id, target_id)

GraphInit == LoopInit /\ StoreEmpty /\ IdentityInit /\ AuxInit

GraphSpec == GraphInit /\ [][GraphNext]_vars

SleepWrites(k) == SleepCall(k) /\ calls[k].pc = "reflecting" /\ calls'[k].pc = "saved"

\* The session of call k corroborates trait t and is not yet in the evidence
\* of the persisted trait record.
FreshlyCorroborated(k, t) ==
    /\ t \in AnalyzeForTraits(choices, calls[k].session)
    /\ \A i \in 1..Len(idFile.id.discovered_traits[t].evidence) :
          idFile.id.discovered_traits[t].evidence[i] # calls[k].session

IsPrefix(a, b) == Len(a) <= Len(b) /\ \A i \in 1..Len(a) : a[i] = b[i]

\* C15: every write of the Identity document leaves on file the complete
\* previous record or a complete new one, never an empty or partial one.
C15_AtomicPersist ==
    [][idFile' = idFile \/ idFile'.status = "ok"]_vars

\* C16: across the Identity write of a sleep, a persisted trait moves one rung
\* up (staying on the last rung once there) if the session freshly
\* corroborates it, and keeps its rung otherwise; it never moves two rungs.
C16_OneRungPerSleep ==
    [][\A k \in Calls : (SleepWrites(k) /\ idFile.status = "ok") =>
        \A t \in Traits :
            LET old == idFile.id.discovered_traits[t].confidence
                new == idFile'.id.discovered_traits[t].confidence
            IN  /\ new <= old + 1
                /\ FreshlyCorroborated(k, t) => new = Min(old + 1, Len(TraitConfidence))
                /\ ~FreshlyCorroborated(k, t) => new = old]_vars

\* C17: across the Identity write of a sleep, a trait already on record stays
\* on record, and its evidence and counter-evidence lists only grow at the end.
C17_TraitNeverRemoved ==
    [][\A k \in Calls : (SleepWrites(k) /\ idFile.status = "ok") =>
        \A t \in Traits :
            LET old == idFile.id.discovered_traits[t]
                new == idFile'.id.discovered_traits[t]
            IN  old.confidence > 0 =>
                    /\ new.confidence > 0
                    /\ IsPrefix(old.evidence, new.evidence)
                    /\ IsPrefix(old.counter_evidence, new.counter_evidence)]_vars

\* --------------------------------------------------- regenerate-embeddings
Providers == {"ollama", "tfidf"}

\* The content of a node; distinct nodes have distinct content.
NodeContent(n) == n

\* The provider's vector for a text: a function of provider and text alone.
Embedding(provider, content) == <<provider, content>>

\* The run starts over every node of the graph.
RegenStart ==
    /\ embed.pc = "idle"
    /\ embed' = [embed EXCEPT !.pc = "running", !.todo = graph.nodes]
    /\ UNCHANGED <<curStatus, curResolution, nodes, choices, storeUp, loopVars, sessionVars,
                   engine, graph, shutdown, viewVars>>

\* A run that leaves alone every node that already has an embedding.
RegenStepSkipEmbedded(n) ==
    /\ embed.pc = "running"
    /\ n \in embed.todo
    /\ embed' = [embed EXCEPT
                    !.vec[n] = IF embed.vec[n] = <<>>
                               THEN Embedding(embed.provider, NodeContent(n))
                               ELSE embed.vec[n],
                    !.todo = @ \ {n}]
    /\ UNCHANGED <<curStatus, curResolution, nodes, choices, storeUp, loopVars, sessionVars,
                   engine, graph, shutdown, viewVars>>

\* The run recomputes and stores the embedding of one more node.
RegenStep(n) ==
    /\ embed.pc = "running"
    /\ n \in embed.todo
    /\ embed' = [embed EXCEPT !.vec[n] = Embedding(embed.provider, NodeContent(n)),
                              !.todo = @ \ {n}]
    /\ UNCHANGED <<curStatus, curResolution, nodes, choices, storeUp, loopVars, sessionVars,
                   engine, graph, shutdown, viewVars>>

\* The run is interrupted with nodes still to do.
RegenInterrupt ==
    /\ embed.pc = "running"
    /\ embed.todo # {}
    /\ embed' = [embed EXCEPT !.pc = "idle", !.todo = {}, !.interrupted = TRUE]
    /\ UNCHANGED <<curStatus, curResolution, nodes, choices, storeUp, loopVars, sessionVars,
                   engine, graph, shutdown, viewVars>>

\* The run has done every node and returns.
RegenFinish ==
    /\ embed.pc = "running"
    /\ embed.todo = {}
    /\ embed' = [embed EXCEPT !.pc = "idle", !.done = embed.vec,
                              !.runs = Min(embed.runs + 1, MaxRuns)]
    /\ UNCHANGED <<curStatus, curResolution, nodes, choices, storeUp, loopVars, sessionVars,
                   engine, graph, shutdown, viewVars>>

\* A graph whose nodes carry no embedding yet or one of an earlier provider
\* configuration; the provider was selected at startup.
EmbedInit ==
    /\ LoopInit /\ StoreEmpty /\ IdentityInit
    /\ engine = EngineIdle
    /\ shutdown = FALSE
    /\ archive = ArchiveEmpty
    /\ nexus = NexusStoreInit
    /\ panel = ChatPanelInit
    /\ chatApi = ChatApiInit
    /\ graph = [GraphEmpty EXCEPT !.nodes = NodeIds]
    /\ \E provider \in Providers :
       \E vec \in [NodeIds -> {<<>>} \cup {<<q>> : q \in Providers}] :
          embed = [EmbedIdle EXCEPT
                      !.provider = provider,
                      !.vec = [n \in NodeIds |->
                                 IF vec[n] = <<>> THEN <<>>
                                 ELSE Embedding(vec[n][1], NodeContent(n))]]

EmbedNext ==
    \/ RegenStart
    \/ \E n \in NodeIds : RegenStep(n)
    \/ RegenInterrupt
    \/ RegenFinish

EmbedSpec == EmbedInit /\ [][EmbedNext]_vars

RaiseShutdown ==
    /\ ~shutdown
    /\ shutdown' = TRUE
    /\ UNCHANGED <<curStatus, curResolution, nodes, choices, storeUp, loopVars, sessionVars,
                   engine, graph, embed, viewVars>>

\* exploration_loop is `while True`: no step of it reads the signal.
ShutdownNext ==
    \/ ExplorerNext /\ UNCHANGED <<sessionVars, engine, graph, embed, shutdown, viewVars>>
    \/ RaiseShutdown

ShutdownSpec == ExplorerInit /\ [][ShutdownNext]_vars

\* C19: every return of _log_choice within a cycle has appended the reported
\* choice to the Choice store as a new record.
C19_ChoicesLogged ==
    [][(epc = "choices" /\ epc' # "sleeping" /\ <<epc', edone'>> # <<epc, edone>>)
        => choices' = Append(choices, ExplorerChoice)]_vars

\* C20: once the shutdown signal is raised, the loop starts no further cycle:
\* from its sleep between two cycles it terminates.
C20_CooperativeShutdown ==
    [][(shutdown /\ epc = "sleeping" /\ epc' # "sleeping") => epc' = "terminated"]_vars

\* ------------------------------------------- what a wake reads from the store
\* ReflectionService.get_recent(days): the stored reflections at most `days`
\* days old.
GetRecent(ages, days) == {a \in ages : a <= days}

RECURSIVE SumAbove(_, _)
\* The number of stored nodes of an importance above l.
SumAbove(imp, l) == IF l >= MaxImportance THEN 0 ELSE imp[l + 1] + SumAbove(imp, l + 1)

RECURSIVE SumBelow(_, _)
SumBelow(imp, l) == IF l <= 1 THEN 0 ELSE imp[l - 1] + SumBelow(imp, l - 1)

Positive(n) == IF n > 0 THEN n ELSE 0

\* A limited read that takes the nodes in the order of ascending importance.
GetImportantAny(imp, limit) ==
    [l \in Importance |-> Min(imp[l], Positive(limit - SumBelow(imp, l)))]

\* MemoryService.get_important(limit): the `limit` nodes of the highest
\* importance, as the number of nodes returned of each importance.
GetImportant(imp, limit) ==
    [l \in Importance |-> Min(imp[l], Positive(limit - SumAbove(imp, l)))]

\* wake, lines 263-278, with the store's content in view: the three reads
\* and the bundle composed from them.
WakeReadArchive(k) ==
    /\ WakeRead(k)
    /\ archive' = [archive EXCEPT !.got =
            IF storeUp
            THEN [done |-> TRUE,
                  reflections |-> GetRecent(archive.ages, LookbackDays),
                  memories |-> GetImportant(archive.imp, WakeMemoryLimit),
                  curiosities |-> {c \in CurIds : curStatus[c] = "pending"}]
            ELSE archive.got]
    /\ UNCHANGED <<loopVars, engine, graph, embed, shutdown, nexus, panel, chatApi>>

\* A store whose nodes have an importance and whose reflections have an age;
\* identity.json was seeded by init_data.py.
BundleInit ==
    /\ LoopInit
    /\ idFile = [status |-> "ok", id |-> SeedIdentity]
    /\ calls = [k \in Calls |-> IdleCall]
    /\ now = 1
    /\ lastWriter = NoWriter
    /\ engine = EngineIdle
    /\ graph = GraphEmpty
    /\ embed = EmbedIdle
    /\ shutdown = FALSE
    /\ nexus = NexusStoreInit
    /\ panel = ChatPanelInit
    /\ chatApi = ChatApiInit
    /\ \E n \in 0..MaxCur : \E st \in {"pending", "explored"} :
          curStatus = [c \in CurIds |-> IF c < n THEN "pending" ELSE IF c = n THEN st ELSE "absent"]
    /\ curResolution = [c \in CurIds |-> "none"]
    /\ choices = <<>>
    /\ storeUp = TRUE
    /\ \E imp \in [Importance -> 0..MaxHigh] :
       \E ages \in SUBSET {a \in Ages : a >= LookbackDays - 1} :
          /\ \A l \in Importance : l < MaxImportance => imp[l] <= MaxLow
          /\ archive = [ArchiveEmpty EXCEPT !.imp = imp, !.ages = ages]
          /\ nodes = SumAbove(imp, 0)
          /\ reflStore = Cardinality(GetRecent(ages, LookbackDays))

BundleNext ==
    \/ WakeLoad(1) /\ UNCHANGED <<loopVars, auxVars>>
    \/ WakeReadArchive(1)
    \/ WakeSave(1) /\ UNCHANGED <<loopVars, auxVars>>
    \/ StoreToggle /\ UNCHANGED <<sessionVars, auxVars>>

BundleSpec == BundleInit /\ [][BundleNext]_vars

Returned(got) == SumAbove(got.memories, 0)

FoldChoices ==
    {LoggedChoice("aesthetic", v) : v \in AnalyzeValues} \cup {LoggedChoice("ethical", "blue")}

FoldLogs == SeqsUpTo(FoldChoices, MaxFold) \cup ChoiceLogs(MaxChoices)

\* identity.json holds a preference map over both domains, empty or filled by
\* earlier sleeps; the store holds the Choice log.
FoldInit ==
    /\ LoopInit /\ AuxRest
    /\ engine \in EngineBuilds
    /\ curStatus = [c \in CurIds |-> "absent"]
    /\ curResolution = [c \in CurIds |-> "none"]
    /\ nodes = 0
    /\ reflStore = 0
    /\ storeUp = TRUE
    /\ choices \in FoldLogs
    /\ \E prior \in {"none", "green"} :
          idFile = [status |-> "ok",
                    id |-> [SeedIdentity EXCEPT
                               !.emerged_preferences = [d \in AnalyzeDomains |-> prior]]]
    /\ calls = [k \in Calls |-> IdleCall]
    /\ now = 1
    /\ lastWriter = NoWriter

FoldNext ==
    \/ \E s \in Sessions : SleepBegin(1, s)
    \/ SleepLoad(1)
    \/ SleepSave(1)
    \/ SleepFinish(1)

FoldSpec == FoldInit /\ [][FoldNext /\ UNCHANGED <<loopVars, auxVars>>]_vars

\* The returned preferences of domain d, as positions of the list.
DetectedIn(prefs, d) == {i \in 1..Len(prefs) : prefs[i].domain = d}

\* The values of domain d chosen at least min_occurrences times, and the
\* position of the latest choice of a value in the log.
Recurring(d) == {v \in AnalyzeValues : CountOf(d, v) >= MinOccurrences}

LastChoice(d, v) ==
    CHOOSE i \in 1..Len(choices) :
        /\ choices[i].domain = d /\ choices[i].chosen = v
        /\ \A j \in (i + 1)..Len(choices) : ~(choices[j].domain = d /\ choices[j].chosen = v)

MostRecentRecurring(d) ==
    CHOOSE v \in Recurring(d) : \A w \in Recurring(d) : LastChoice(d, w) <= LastChoice(d, v)

SleepFolds(k) == SleepCall(k) /\ calls[k].pc = "analyzing" /\ calls'[k].pc = "reflecting"

CountInSession(d, v, s) ==
    Cardinality({i \in 1..Len(choices) :
        choices[i].domain = d /\ choices[i].chosen = v /\ choices[i].session_id = s})

\* C23: a value chosen at least min_occurrences times over all sessions, but
\* fewer times in the session that logged the last of these choices, is the
\* preference of its domain after the fold of that session's sleep.
C23_CrossSessionPreference ==
    [][SleepFolds(1) =>
          \A d \in AnalyzeDomains, v \in AnalyzeValues :
              (/\ CountOf(d, v) >= MinOccurrences
               /\ CountInSession(d, v, calls[1].session) < MinOccurrences
               /\ choices[LastChoice(d, v)].session_id = calls[1].session
               /\ Recurring(d) = {v})
                  => calls'[1].id.emerged_preferences[d] = v]_vars

\* ------------------------------------------------- claims on failed wakes
WakeFails(k) == WakeCall(k) /\ calls[k].pc # "failed" /\ calls'[k].pc = "failed"

\* The wake calls that have returned their bundle.
WakesReturned(cs) == {k \in Calls : cs[k].kind = "wake" /\ cs[k].pc = "done"}

\* C24: a wake that fails, at its reads of the store or at its write of the
\* Identity, leaves the persisted Identity as it was, and the persisted
\* session_count is the number of wakes that returned a bundle.
C24_FailedWakeChangesNothing ==
    [][/\ \A k \in Calls : WakeFails(k) => idFile' = idFile
       /\ idFile'.status = "ok"
            => idFile'.id.session_count = Cardinality(WakesReturned(calls'))]_vars

\* --------------------------------------------- claims on interleaved calls
AllCallsFinished == \A k \in Calls : calls[k].pc \in {"idle", "done", "failed"}

SleepsReturned == {k \in Calls : calls[k].kind = "sleep" /\ calls[k].pc = "done"}

\* C25: once all wake and sleep calls have finished, the persisted
\* session_count is the initial 0 plus the number of wakes that returned, and
\* the Identity holds what every sleep that returned has folded: its session
\* in the evidence of each trait it corroborated, and the detected preferences.
C25_NoLostUpdate ==
    (AllCallsFinished /\ idFile.status = "ok") =>
        /\ idFile.id.session_count = Cardinality(WakesReturned(calls))
        /\ \A k \in SleepsReturned :
            /\ \A t \in AnalyzeForTraits(choices, calls[k].session) :
                  \E i \in 1..Len(idFile.id.discovered_traits[t].evidence) :
                      idFile.id.discovered_traits[t].evidence[i] = calls[k].session
            /\ idFile.id.emerged_preferences
                  = FoldPreferences(idFile.id, AnalyzeChoices(choices, MinOccurrences))
                        .emerged_preferences

\* ------------------------------------------ a second picker of curiosities
\* An explicit user action selects a pending curiosity for exploration: the
\* store moves it to exploring if, and only if, it is still pending.
UserSelect(c) ==
    /\ storeUp
    /\ curStatus[c] = "pending"
    /\ curStatus' = [curStatus EXCEPT ![c] = "exploring"]
    /\ UNCHANGED <<curResolution, nodes, choices, storeUp, loopVars>>

\* The Explorer loop next to the chat and a user who selects curiosities.
PickNext ==
    \/ ExplorerNext
    \/ \E c \in CurIds : UserSelect(c)

PickSpec == ExplorerInit /\ [][PickNext /\ UNCHANGED <<sessionVars, auxVars>>]_vars

\* C26: the Explorer's write of exploring finds its curiosity still pending,
\* so that no curiosity is moved to exploring by two pickers, and its write
\* of explored finds the curiosity exploring.
C26_SelectionIsCheckAndSet ==
    [][/\ (epc = "selected" /\ epc' = "exploring") => curStatus[ecur.id] = "pending"
       /\ (epc = "marking" /\ epc' = "sleeping") => curStatus[ecur.id] = "exploring"]_vars

\* ------------------------------------------------ claims on exploring
Exploring == {c \in CurIds : curStatus[c] = "exploring"}

\* C27: at most one curiosity is in status exploring at any moment, whatever
\* the outcome of earlier cycles.
C27_OneExploring == Cardinality(Exploring) <= 1

\* ------------------------------------------------ the front end's store
\* wake, lines 98-106, and sleep, lines 122-125: the set after the API call.
WakeSet(store, session_id) == [store EXCEPT !.isAwake = TRUE, !.sessionId = session_id]

SleepSet(store) == [store EXCEPT !.isAwake = FALSE, !.sessionId = NullId]

\* setAwake, lines 83-84: sessionId ?? get().sessionId.
SetAwakeSet(store, isAwake, sessionId) ==
    [store EXCEPT !.isAwake = isAwake,
                  !.sessionId = IF sessionId # NullId THEN sessionId ELSE store.sessionId]

StoreFrame ==
    UNCHANGED <<curStatus, curResolution, nodes, choices, storeUp, loopVars, sessionVars,
                engine, graph, embed, shutdown, archive, panel, chatApi>>

\* wake is called: api.wake is in flight.
StoreWakeCall ==
    /\ nexus.wakes < MaxInFlight
    /\ nexus' = [nexus EXCEPT !.wakes = @ + 1, !.last = "call"]
    /\ StoreFrame

\* api.wake returns the session id the backend issued.
StoreWakeResolve ==
    /\ nexus.wakes > 0
    /\ nexus.issued < MaxIssued
    /\ nexus' = [WakeSet(nexus, nexus.issued + 1) EXCEPT
                    !.wakes = @ - 1, !.issued = @ + 1, !.last = "wake_ok"]
    /\ StoreFrame

\* api.wake throws: wake rejects before its set.
StoreWakeReject ==
    /\ nexus.wakes > 0
    /\ nexus' = [nexus EXCEPT !.wakes = @ - 1, !.last = "wake_failed"]
    /\ StoreFrame

StoreSleepCall ==
    /\ nexus.sleeps < MaxInFlight
    /\ nexus' = [nexus EXCEPT !.sleeps = @ + 1, !.last = "call"]
    /\ StoreFrame

StoreSleepResolve ==
    /\ nexus.sleeps > 0
    /\ nexus' = [SleepSet(nexus) EXCEPT !.sleeps = @ - 1, !.last = "sleep_ok"]
    /\ StoreFrame

StoreSleepReject ==
    /\ nexus.sleeps > 0
    /\ nexus' = [nexus EXCEPT !.sleeps = @ - 1, !.last = "sleep_failed"]
    /\ StoreFrame

\* setAwake(isAwake, sessionId?), with sessionId omitted (0) or given.
SetAwake(isAwake, sessionId) ==
    /\ nexus' = [SetAwakeSet(nexus, isAwake, sessionId) EXCEPT !.last = "setAwake"]
    /\ StoreFrame

StoreNext ==
    \/ StoreWakeCall
    \/ StoreWakeResolve
    \/ StoreWakeReject
    \/ StoreSleepCall
    \/ StoreSleepResolve
    \/ StoreSleepReject
    \/ \E isAwake \in BOOLEAN, sessionId \in 0..MaxIssued : SetAwake(isAwake, sessionId)

StoreSpec == ExplorerInit /\ [][StoreNext]_vars

\* C28: the store is awake only with a session id; a sleep that succeeded
\* leaves it asleep without a session id; a wake or sleep whose API call
\* failed leaves isAwake and sessionId as they were.
C28_AwakeHasSession ==
    [][/\ nexus'.isAwake => nexus'.sessionId # NullId
       /\ nexus'.last = "sleep_ok" => (~nexus'.isAwake /\ nexus'.sessionId = NullId)
       /\ nexus'.last \in {"wake_failed", "sleep_failed"}
            => (nexus'.isAwake = nexus.isAwake /\ nexus'.sessionId = nexus.sessionId)]_vars

\* ------------------------------------------------------- the ChatPanel
SystemMessage == [role |-> "system", id |-> 0]

Remove(seq, i) == [j \in 1..(Len(seq) - 1) |-> IF j < i THEN seq[j] ELSE seq[j + 1]]

\* The dependencies of the session effect, lines 155-159.
EffectDeps(store, p) == <<store.isAwake, p.chatConfigured, p.chatSessionId>>

\* The render after a state change: when a dependency changed and the store
\* is awake, chat is configured and there is no chat session, the effect
\* calls createChatSession, whose api.createChatSession is then in flight.
RunEffect(store1, p1, store0, p0) ==
    IF /\ EffectDeps(store1, p1) # EffectDeps(store0, p0)
       /\ store1.isAwake /\ p1.chatConfigured = "true" /\ p1.chatSessionId = NullChat
    THEN [p1 EXCEPT !.creating = Append(@, store1.issued)]
    ELSE p1

PanelFrame ==
    UNCHANGED <<curStatus, curResolution, nodes, choices, storeUp, loopVars, sessionVars,
                engine, graph, embed, shutdown, archive>>

\* The mount effect, lines 143-147: getChatStatus settles.
PanelStatusResolve ==
    /\ panel.chatConfigured = "null"
    /\ \E configured \in {"true", "false"} :
        panel' = RunEffect(nexus, [panel EXCEPT !.chatConfigured = configured,
                                                !.last = "status"], nexus, panel)
    /\ UNCHANGED <<nexus, chatApi>>
    /\ PanelFrame

\* handleWake, lines 216-220: the Wake button is shown while asleep and is
\* enabled while not loading.
PanelHandleWake ==
    /\ ~panel.isLoading /\ ~nexus.isAwake
    /\ nexus' = [nexus EXCEPT !.wakes = @ + 1, !.last = "call"]
    /\ panel' = [panel EXCEPT !.isLoading = TRUE, !.error = "null", !.handler = "waking",
                              !.last = "wake"]
    /\ UNCHANGED chatApi
    /\ PanelFrame

\* The store's wake sets the session; it then awaits getWorld.
PanelWakeResolve ==
    /\ panel.handler = "waking"
    /\ nexus.issued < MaxIssued
    /\ nexus' = [WakeSet(nexus, nexus.issued + 1) EXCEPT
                    !.wakes = @ - 1, !.issued = @ + 1, !.last = "wake_ok"]
    /\ panel' = RunEffect(nexus', [panel EXCEPT !.handler = "woken", !.last = "wake"],
                          nexus, panel)
    /\ UNCHANGED chatApi
    /\ PanelFrame

\* wake has returned: handleWake, line 226.
PanelWakeDone ==
    /\ panel.handler = "woken"
    /\ panel' = [panel EXCEPT !.isLoading = FALSE, !.handler = "none", !.last = "wake"]
    /\ UNCHANGED <<nexus, chatApi>>
    /\ PanelFrame

\* handleWake, lines 222-226: wake rejected.
PanelWakeReject ==
    /\ panel.handler = "waking"
    /\ nexus' = [nexus EXCEPT !.wakes = @ - 1, !.last = "wake_failed"]
    /\ panel' = [panel EXCEPT !.isLoading = FALSE, !.handler = "none",
                              !.error = "Failed to wake Claude", !.last = "wake"]
    /\ UNCHANGED chatApi
    /\ PanelFrame

\* handleSleep, lines 229-237: the Sleep button is shown while awake; the
\* chat session, if there is one, is ended first.
PanelHandleSleep ==
    /\ ~panel.isLoading /\ nexus.isAwake
    /\ IF panel.chatSessionId # NullChat
       THEN /\ panel' = [panel EXCEPT !.isLoading = TRUE, !.handler = "ending",
                                      !.last = "sleep"]
            /\ UNCHANGED nexus
       ELSE /\ panel' = [panel EXCEPT !.isLoading = TRUE, !.handler = "sleeping",
                                      !.last = "sleep"]
            /\ nexus' = [nexus EXCEPT !.sleeps = @ + 1, !.last = "call"]
    /\ UNCHANGED chatApi
    /\ PanelFrame

\* handleSleep, lines 234-237: endChatSession returned; sleep is called.
PanelEndResolve ==
    /\ panel.handler = "ending"
    /\ chatApi' = [chatApi EXCEPT !.ended = @ \cup {panel.chatSessionId.n}]
    /\ nexus' = [nexus EXCEPT !.sleeps = @ + 1, !.last = "call"]
    /\ panel' = RunEffect(nexus', [panel EXCEPT !.chatSessionId = NullChat,
                                                !.handler = "sleeping", !.last = "sleep"],
                          nexus, panel)
    /\ PanelFrame

\* handleSleep, lines 247-251: endChatSession threw.
PanelEndReject ==
    /\ panel.handler = "ending"
    /\ panel' = [panel EXCEPT !.isLoading = FALSE, !.handler = "none",
                              !.error = "Failed to execute sleep protocol", !.last = "sleep"]
    /\ UNCHANGED <<nexus, chatApi>>
    /\ PanelFrame

\* handleSleep, lines 237-246 and 251: sleep returned.
PanelSleepResolve ==
    /\ panel.handler = "sleeping"
    /\ nexus' = [SleepSet(nexus) EXCEPT !.sleeps = @ - 1, !.last = "sleep_ok"]
    /\ panel' = RunEffect(nexus', [panel EXCEPT !.messages = Append(@, SystemMessage),
                                                !.isLoading = FALSE, !.handler = "none",
                                                !.last = "sleep"],
                          nexus, panel)
    /\ UNCHANGED chatApi
    /\ PanelFrame

\* handleSleep, lines 247-251: sleep rejected.
PanelSleepReject ==
    /\ panel.handler = "sleeping"
    /\ nexus' = [nexus EXCEPT !.sleeps = @ - 1, !.last = "sleep_failed"]
    /\ panel' = [panel EXCEPT !.isLoading = FALSE, !.handler = "none",
                              !.error = "Failed to execute sleep protocol", !.last = "sleep"]
    /\ UNCHANGED chatApi
    /\ PanelFrame

\* createChatSession, lines 163-173: the backend created a chat session.
PanelCreateResolve(i) ==
    /\ i \in 1..Len(panel.creating)
    /\ Len(chatApi.created) < MaxChats
    /\ chatApi' = [chatApi EXCEPT !.created = Append(@, panel.creating[i])]
    /\ panel' = RunEffect(nexus,
                    [panel EXCEPT !.chatSessionId = [n |-> Len(chatApi.created) + 1,
                                                     wake |-> panel.creating[i]],
                                  !.messages = <<SystemMessage>>,
                                  !.error = "null",
                                  !.creating = Remove(@, i),
                                  !.last = "create"],
                    nexus, panel)
    /\ UNCHANGED nexus
    /\ PanelFrame

\* createChatSession, lines 174-177: api.createChatSession threw.
PanelCreateReject(i) ==
    /\ i \in 1..Len(panel.creating)
    /\ panel' = [panel EXCEPT !.creating = Remove(@, i),
                              !.error = "Failed to initialize chat session",
                              !.last = "create"]
    /\ UNCHANGED <<nexus, chatApi>>
    /\ PanelFrame

\* ChatInput, line 356: disabled={!isAwake || isLoading || !chatConfigured || !chatSessionId}.
InputDisabled ==
    \/ ~nexus.isAwake
    \/ panel.isLoading
    \/ panel.chatConfigured # "true"
    \/ panel.chatSessionId = NullChat

\* ChatInput.handleSubmit and handleSend, lines 180-199: the user message is
\* appended and api.sendChatMessage is in flight.
PanelSend ==
    /\ ~InputDisabled
    /\ panel.chatSessionId # NullChat
    /\ panel.clock + 2 <= MaxClock
    /\ panel' = [panel EXCEPT
            !.messages = Append(@, [role |-> "user", id |-> panel.clock + 1]),
            !.error = "null",
            !.isLoading = TRUE,
            !.sending = Append(@, [sid |-> panel.chatSessionId, user |-> panel.clock + 1,
                                   before |-> panel.messages]),
            !.clock = @ + 1,
            !.last = "send"]
    /\ UNCHANGED <<nexus, chatApi>>
    /\ PanelFrame

\* handleSend, lines 181-184, called without a chat session.
PanelSendRefused ==
    /\ panel.chatSessionId = NullChat
    /\ panel' = [panel EXCEPT !.error = "No active chat session", !.last = "send_refused"]
    /\ UNCHANGED <<nexus, chatApi>>
    /\ PanelFrame

\* handleSend, lines 199-206 and 213: the reply arrived.
PanelSendResolve(i) ==
    /\ i \in 1..Len(panel.sending)
    /\ panel' = [panel EXCEPT
            !.messages = Append(@, [role |-> "claude", id |-> panel.clock + 1]),
            !.clock = @ + 1,
            !.isLoading = FALSE,
            !.sending = Remove(@, i),
            !.last = "send_ok"]
    /\ UNCHANGED <<nexus, chatApi>>
    /\ PanelFrame

\* handleSend, lines 207-213: api.sendChatMessage threw.
PanelSendReject(i) ==
    /\ i \in 1..Len(panel.sending)
    /\ panel' = [panel EXCEPT
            !.messages = SelectSeq(@, LAMBDA m : m.id # panel.sending[i].user),
            !.error = "Failed to send message. Please try again.",
            !.isLoading = FALSE,
            !.sending = Remove(@, i),
            !.last = "send_failed"]
    /\ UNCHANGED <<nexus, chatApi>>
    /\ PanelFrame

PanelNext ==
    \/ PanelStatusResolve
    \/ PanelHandleWake
    \/ PanelWakeResolve
    \/ PanelWakeDone
    \/ PanelWakeReject
    \/ PanelHandleSleep
    \/ PanelEndResolve
    \/ PanelEndReject
    \/ PanelSleepResolve
    \/ PanelSleepReject
    \/ \E i \in 1..MaxChats : PanelCreateResolve(i)
    \/ \E i \in 1..MaxChats : PanelCreateReject(i)
    \/ PanelSend
    \/ PanelSendRefused
    \/ \E i \in 1..MaxInFlight : PanelSendResolve(i)
    \/ \E i \in 1..MaxInFlight : PanelSendReject(i)

PanelSpec == ExplorerInit /\ [][PanelNext]_vars

\* The chat sessions the backend created on requests made in waking period w.
CreatedIn(w) == {n \in 1..Len(chatApi.created) : chatApi.created[n] = w}

\* C29: the backend creates at most one chat session per wake; while the
\* store is asleep and no handler runs, chatSessionId is null; and a message
\* is sent only on a chat session requested in the current waking period.
C29_OneChatPerWake ==
    /\ \A w \in 1..MaxIssued : Cardinality(CreatedIn(w)) <= 1
    /\ (~nexus.isAwake /\ panel.handler = "none") => panel.chatSessionId = NullChat
    /\ \A i \in 1..Len(panel.sending) : panel.sending[i].sid.wake = nexus.issued

====
